---- MODULE Spec2Model ----
(***************************************************************************)
(* Model of server.js: the SSE observer registry (clients, /events,        *)
(* broadcast), the marker routes (POST and DELETE /api/locations) and the  *)
(* SOS route (POST /send-sos).                                             *)
(*                                                                         *)
(* Node runs every handler on one thread: the code between two awaits is   *)
(* one atomic step.  A handler that awaits the store or the SMS channel    *)
(* is split at the await: the part before it, the external operation       *)
(* settling, and the continuation are separate actions.                    *)
(*                                                                         *)
(* Coordinates are integers in units of 0.00001 degree.  A request body    *)
(* field is a sequence: << >> when the field is absent, <<v>> when it is   *)
(* present with value v.                                                   *)
(***************************************************************************)
EXTENDS Integers, Sequences, FiniteSets, TLC

VARIABLES
    clients,    \* src/server.js:51  the array of client closures, in push order
    conn,       \* per connection: "none", "open", "broken" or "closed"
    called,     \* per connection: the frames handed to its closure (history)
    received,   \* per connection: the frames its response stream accepted
    store,      \* the Location collection: a set of documents
    nextId,     \* the next document _id
    req,        \* the marker requests and where each handler stands
    nextReq,    \* the next marker request
    pubs,       \* history: one record per call of broadcast
    env,        \* process.env: which of the three Twilio settings are set
    sos,        \* the SOS requests and where each handler stands
    nextSos     \* the next SOS request

vars == <<clients, conn, called, received, store, nextId, req, nextReq, pubs,
          env, sos, nextSos>>

brokerVars == <<clients, conn, called, received>>
markerVars == <<store, nextId, req, nextReq, pubs>>
sosVars == <<env, sos, nextSos>>

----------------------------------------------------------------------------
(* Bounds of the model *)

MaxConns == 3
MaxReqs == 2
MaxSos == 2
MaxRequests == 2

Conns == 1..MaxConns
Reqs == 1..MaxReqs
SosReqs == 1..MaxSos

\* The request bodies the routes are driven with: <<latitude, longitude>>
\* for a delete, <<latitude, longitude, description>> for a create.
\* Marker A is at (1, 5) and marker B at (3, 5).  A delete for (2, 6) is at
\* the tolerance from both, one for (1, 7) is beyond it in longitude, one
\* for (4, 5) is at the tolerance from B and beyond it from A in latitude;
\* for (4, 5) the lower bound of the query rounds to above B's latitude.
\* The invalid bodies have a field absent or 0.
InvalidBodies == {<< << >>, <<5>> >>, << <<0>>, <<5>> >>,
                  << <<1>>, << >> >>, << <<1>>, <<0>> >>}
CreateBodies == {<< <<1>>, <<5>>, << >> >>, << <<1>>, <<5>>, <<"lab">> >>,
                 << <<3>>, <<5>>, << >> >>}
                 \cup {<<b[1], b[2], << >> >> : b \in InvalidBodies}
DeleteBodies == {<< <<1>>, <<5>> >>, << <<2>>, <<6>> >>, << <<1>>, <<7>> >>,
                 << <<4>>, <<5>> >>}
                 \cup InvalidBodies

----------------------------------------------------------------------------
(* Helpers *)

Range(s) == {s[i] : i \in 1..Len(s)}

\* JavaScript !x for a body field: absent (undefined) and the number 0 are
\* falsy, every other number is truthy.
FalsyOnlyAbsent(f) == f = << >>
Falsy(f) == f = << >> \/ f[1] = 0

\* description || ''
OrEmpty(f) == IF f = << >> \/ f[1] = "" THEN "" ELSE f[1]

\* Array.prototype.filter(c => c !== client)
RECURSIVE FilterOut(_, _)
FilterOut(cs, o) ==
    IF cs = << >> THEN << >>
    ELSE IF Head(cs) = o THEN FilterOut(Tail(cs), o)
         ELSE <<Head(cs)>> \o FilterOut(Tail(cs), o)

----------------------------------------------------------------------------
(* The initial state: server.js after module load *)

NoReq == [kind |-> "none", pc |-> "idle", latitude |-> << >>,
          longitude |-> << >>, description |-> << >>, doc |-> << >>,
          outcome |-> "none", status |-> 0, reply |-> "none"]

NoReply == [success |-> FALSE, partial |-> << >>, successful |-> << >>,
            total |-> << >>, text |-> << >>]

NoSos == [pc |-> "idle", latitude |-> << >>, longitude |-> << >>,
          i |-> 1, results |-> << >>, sends |-> 0, sids |-> 0,
          message |-> << >>,
          status |-> 0, reply |-> NoReply]

InitBroker ==
    /\ clients = << >>
    /\ conn = [o \in Conns |-> "none"]
    /\ called = [o \in Conns |-> << >>]
    /\ received = [o \in Conns |-> << >>]

InitMarkers ==
    /\ store = {}
    /\ nextId = 1
    /\ req = [r \in Reqs |-> NoReq]
    /\ nextReq = 1
    /\ pubs = << >>

InitSos ==
    /\ sos = [r \in SosReqs |-> NoSos]
    /\ nextSos = 1

AllSet == [accountSid |-> TRUE, authToken |-> TRUE, twilioNumber |-> TRUE]

Init ==
    /\ InitBroker
    /\ InitMarkers
    /\ InitSos
    /\ env = AllSet

----------------------------------------------------------------------------
(* Server-Sent Events: /events, the client closure and broadcast *)

\* The SSE frame a client closure writes: `data: ${JSON.stringify(data)}\n\n`
Frame(data) == <<"data: ", data, "\n\n">>

\* res.write on a stream that accepts the frame: the frame follows what
\* was written before.
WriteFront(stream, entry) == <<entry>> \o stream
Write(stream, entry) == Append(stream, entry)

\* One call client(data) of the closure of connection o (line 61).  The
\* return value of res.write is ignored.  On a connection whose socket is
\* gone res.write accepts nothing and does not raise.  p is the index of
\* the broadcast call in pubs.
Client(o, data, p, st) ==
    LET entry == [pub |-> p, frame |-> Frame(data)]
    IN [called |-> [st.called EXCEPT ![o] = Append(@, entry)],
        received |-> IF conn[o] = "open"
                     THEN [st.received EXCEPT ![o] = Write(@, entry)]
                     ELSE st.received]

\* clients.forEach(client => client(data)), from index k on
RECURSIVE ForEach(_, _, _, _, _)
ForEach(cs, k, data, p, st) ==
    IF k > Len(cs) THEN st
    ELSE ForEach(cs, k + 1, data, p, Client(cs[k], data, p, st))

BroadcastStopsAtBroken(cs, data, p, st) ==
    IF \E k \in 1..Len(cs) : conn[cs[k]] # "open"
    THEN ForEach(SubSeq(cs, 1, (CHOOSE k \in 1..Len(cs) :
                                   /\ conn[cs[k]] # "open"
                                   /\ \A j \in 1..(k - 1) : conn[cs[j]] = "open") - 1),
                 1, data, p, st)
    ELSE ForEach(cs, 1, data, p, st)
BroadcastSkipsClosing(cs, data, p, st) ==
    ForEach(SelectSeq(cs, LAMBDA o : conn[o] = "open"), 1, data, p, st)
Broadcast(cs, data, p, st) == ForEach(cs, 1, data, p, st)

\* The effect of broadcast(data) called by request r on the registry and
\* on the history of broadcast calls.
Publish(r, data) ==
    LET p == Len(pubs) + 1
        st == Broadcast(clients, data, p, [called |-> called, received |-> received])
    IN /\ called' = st.called
       /\ received' = st.received
       /\ pubs' = Append(pubs, [by |-> r, data |-> data, snapshot |-> clients,
                                closed |-> {o \in Conns : conn[o] = "closed"},
                                broken |-> {o \in Conns : conn[o] = "broken"}])
       /\ UNCHANGED <<clients, conn>>

\* req.on('close') handler (lines 65-67)
CloseHandlerKeeps(cs, o) == cs
CloseHandlerPops(cs, o) ==
    IF cs = << >> THEN cs ELSE SubSeq(cs, 1, Len(cs) - 1)
CloseHandler(cs, o) == FilterOut(cs, o)

\* GET /events (lines 54-68): a new connection, its closure is pushed
GetEventsReplays ==
    /\ \E o \in Conns :
        /\ conn[o] = "none"
        /\ \A q \in Conns : q < o => conn[q] # "none"
        /\ clients' = Append(clients, o)
        /\ conn' = [conn EXCEPT ![o] = "open"]
        /\ called' = [called EXCEPT ![o] =
                         [k \in 1..Len(pubs) |->
                             [pub |-> k, frame |-> Frame(pubs[k].data)]]]
        /\ received' = [received EXCEPT ![o] = called'[o]]
    /\ UNCHANGED <<markerVars, sosVars>>
GetEventsPushesTwice ==
    /\ \E o \in Conns :
        /\ conn[o] = "none"
        /\ \A q \in Conns : q < o => conn[q] # "none"
        /\ clients' = clients \o <<o, o>>
        /\ conn' = [conn EXCEPT ![o] = "open"]
    /\ UNCHANGED <<called, received, markerVars, sosVars>>
GetEvents ==
    /\ \E o \in Conns :
        /\ conn[o] = "none"
        /\ \A q \in Conns : q < o => conn[q] # "none"
        /\ clients' = Append(clients, o)
        /\ conn' = [conn EXCEPT ![o] = "open"]
    /\ UNCHANGED <<called, received, markerVars, sosVars>>

\* The socket of an open connection is lost; the close event of the
\* request is not dispatched yet.
SocketLost(o) ==
    /\ conn[o] = "open"
    /\ conn' = [conn EXCEPT ![o] = "broken"]
    /\ UNCHANGED <<clients, called, received, markerVars, sosVars>>

\* The close event of the request of connection o is dispatched.
ReqClose(o) ==
    /\ conn[o] \in {"open", "broken"}
    /\ clients' = CloseHandler(clients, o)
    /\ conn' = [conn EXCEPT ![o] = "closed"]
    /\ UNCHANGED <<called, received, markerVars, sosVars>>

----------------------------------------------------------------------------
(* The marker routes: POST /api/locations and DELETE /api/locations *)

\* 0.00001 degree, the half-width of the range query of the delete route
Tolerance == 1

\* new Location({latitude, longitude, description: description || ''}).
\* The timestamp default (Date.now) is not modelled: the model has no clock.
NewLocation(id, lat, lon, desc) ==
    [id |-> id, latitude |-> lat[1], longitude |-> lon[1],
     description |-> OrEmpty(desc)]

\* A coordinate k stands for the double nearest to k * 0.00001.  The
\* bounds of the range query are computed in binary64: `x - 0.00001` is
\* the double of k - 1 or a double right beside it, `x + 0.00001` the
\* double of k + 1 or one right beside it.  SubRounds[k] is the sign of
\* the computed difference minus the double of k - 1, AddRounds[k] the
\* sign of the computed sum minus the double of k + 1 (0.00004 - 0.00001
\* is 3.0000000000000004e-05, above 0.00003).
SubRounds == <<0, 0, -1, 1, 0, 0, -1, 1, 0>>
AddRounds == <<0, 1, 0, 0, 0, 1, -1, 0, 0>>
LowerBound(x) == [units |-> x - Tolerance, off |-> SubRounds[x]]
UpperBound(x) == [units |-> x + Tolerance, off |-> AddRounds[x]]

\* $gte and $lte of a stored coordinate v against a computed bound b
Gte(v, b) == v > b.units \/ (v = b.units /\ b.off <= 0)
Lte(v, b) == v < b.units \/ (v = b.units /\ b.off >= 0)

\* The query of Location.findOneAndDelete (lines 124-127): both fields
\* within the closed range between the computed bounds.
Matches(d, lat, lon) ==
    /\ Gte(d.latitude, LowerBound(lat))
    /\ Lte(d.latitude, UpperBound(lat))
    /\ Gte(d.longitude, LowerBound(lon))
    /\ Lte(d.longitude, UpperBound(lon))

\* The events handed to broadcast (lines 104 and 130)
NewMarkerEvent(doc) == [type |-> "NEW_MARKER", data |-> doc]
DeleteMarkerOfDoc(lat, lon, doc) ==
    [type |-> "DELETE_MARKER",
     data |-> [latitude |-> doc.latitude, longitude |-> doc.longitude]]
DeleteMarkerEvent(lat, lon, doc) ==
    [type |-> "DELETE_MARKER", data |-> [latitude |-> lat, longitude |-> lon]]

\* Line 104 is reached only when the awaited save did not reject.
BroadcastsAlways(outcome) == TRUE
BroadcastsAfterSave(outcome) == outcome = "ok"

\* Line 130 is reached only when findOneAndDelete returned a document.
BroadcastsAfterDelete(outcome) == outcome = "ok"

\* The status sent after broadcast returned (lines 105 and 131); cs are
\* the closures broadcast called.
StatusFailsOnBrokenSink(ok, cs) ==
    IF \E k \in 1..Len(cs) : conn[cs[k]] # "open" THEN 500 ELSE ok
StatusAfterBroadcast(ok, cs) == ok

\* POST /api/locations up to the await of save (lines 88-102)
PostLocations(lat, lon, desc) ==
    /\ nextReq <= MaxReqs
    /\ nextReq' = nextReq + 1
    /\ IF Falsy(lat) \/ Falsy(lon)
       THEN /\ req' = [req EXCEPT ![nextReq] =
                         [NoReq EXCEPT !.kind = "create", !.pc = "done",
                            !.latitude = lat, !.longitude = lon,
                            !.description = desc, !.status = 400,
                            !.reply = "Latitude and longitude are required"]]
            /\ UNCHANGED nextId
       ELSE /\ req' = [req EXCEPT ![nextReq] =
                         [NoReq EXCEPT !.kind = "create", !.pc = "await",
                            !.latitude = lat, !.longitude = lon,
                            !.description = desc,
                            !.doc = <<NewLocation(nextId, lat, lon, desc)>>]]
            /\ nextId' = nextId + 1
    /\ UNCHANGED <<store, pubs, brokerVars, sosVars>>

\* The store settles newLocation.save(): the document is inserted, or the
\* save is rejected.
SaveSettles(r, ok) ==
    /\ req[r].kind = "create"
    /\ req[r].pc = "await"
    /\ IF ok
       THEN /\ store' = store \cup {req[r].doc[1]}
            /\ req' = [req EXCEPT ![r].pc = "settled", ![r].outcome = "ok"]
       ELSE /\ store' = store
            /\ req' = [req EXCEPT ![r].pc = "settled", ![r].outcome = "error"]
    /\ UNCHANGED <<nextId, nextReq, pubs, brokerVars, sosVars>>

\* POST /api/locations after the await (lines 103-109)
PostLocationsResume(r) ==
    /\ req[r].kind = "create"
    /\ req[r].pc = "settled"
    /\ IF BroadcastsAfterSave(req[r].outcome)
       THEN /\ Publish(r, NewMarkerEvent(req[r].doc[1]))
            /\ req' = [req EXCEPT ![r].pc = "done",
                         ![r].status = StatusAfterBroadcast(201, clients),
                         ![r].reply = "newLocation"]
       ELSE /\ req' = [req EXCEPT ![r].pc = "done", ![r].status = 500,
                         ![r].reply = "Failed to save location"]
            /\ UNCHANGED <<pubs, brokerVars>>
    /\ UNCHANGED <<store, nextId, nextReq, sosVars>>

\* DELETE /api/locations up to the await of findOneAndDelete (lines 113-127)
DeleteLocations(lat, lon) ==
    /\ nextReq <= MaxReqs
    /\ nextReq' = nextReq + 1
    /\ IF Falsy(lat) \/ Falsy(lon)
       THEN req' = [req EXCEPT ![nextReq] =
                      [NoReq EXCEPT !.kind = "delete", !.pc = "done",
                         !.latitude = lat, !.longitude = lon, !.status = 400,
                         !.reply = "Latitude and longitude are required for deletion"]]
       ELSE req' = [req EXCEPT ![nextReq] =
                      [NoReq EXCEPT !.kind = "delete", !.pc = "await",
                         !.latitude = lat, !.longitude = lon]]
    /\ UNCHANGED <<store, nextId, pubs, brokerVars, sosVars>>

\* The store settles findOneAndDelete: one matching document is removed
\* and returned, null is returned when none matches, or the call is
\* rejected.
FindOneSettles(r, ok) ==
    /\ req[r].kind = "delete"
    /\ req[r].pc = "await"
    /\ LET found == {d \in store :
                        Matches(d, req[r].latitude[1], req[r].longitude[1])}
       IN IF ~ok
          THEN /\ store' = store
               /\ req' = [req EXCEPT ![r].pc = "settled", ![r].outcome = "error"]
          ELSE IF found = {}
          THEN /\ store' = store
               /\ req' = [req EXCEPT ![r].pc = "settled", ![r].outcome = "null"]
          ELSE \E d \in found :
                  /\ store' = store
                  /\ req' = [req EXCEPT ![r].pc = "settled",
                               ![r].outcome = "ok", ![r].doc = <<d>>]
    /\ UNCHANGED <<nextId, nextReq, pubs, brokerVars, sosVars>>
FindOneAndDeleteSettles(r, ok) ==
    /\ req[r].kind = "delete"
    /\ req[r].pc = "await"
    /\ LET found == {d \in store :
                        Matches(d, req[r].latitude[1], req[r].longitude[1])}
       IN IF ~ok
          THEN /\ store' = store
               /\ req' = [req EXCEPT ![r].pc = "settled", ![r].outcome = "error"]
          ELSE IF found = {}
          THEN /\ store' = store
               /\ req' = [req EXCEPT ![r].pc = "settled", ![r].outcome = "null"]
          ELSE \E d \in found :
                  /\ store' = store \ {d}
                  /\ req' = [req EXCEPT ![r].pc = "settled",
                               ![r].outcome = "ok", ![r].doc = <<d>>]
    /\ UNCHANGED <<nextId, nextReq, pubs, brokerVars, sosVars>>

\* DELETE /api/locations after the await (lines 128-139)
DeleteLocationsResume(r) ==
    /\ req[r].kind = "delete"
    /\ req[r].pc = "settled"
    /\ IF BroadcastsAfterDelete(req[r].outcome)
       THEN /\ Publish(r, DeleteMarkerEvent(req[r].latitude[1],
                                            req[r].longitude[1], req[r].doc[1]))
            /\ req' = [req EXCEPT ![r].pc = "done",
                         ![r].status = StatusAfterBroadcast(200, clients),
                         ![r].reply = "Marker deleted successfully"]
       ELSE IF req[r].outcome = "null"
       THEN /\ req' = [req EXCEPT ![r].pc = "done", ![r].status = 404,
                         ![r].reply = "Marker not found"]
            /\ UNCHANGED <<pubs, brokerVars>>
       ELSE /\ req' = [req EXCEPT ![r].pc = "done", ![r].status = 500,
                         ![r].reply = "Failed to delete marker"]
            /\ UNCHANGED <<pubs, brokerVars>>
    /\ UNCHANGED <<store, nextId, nextReq, sosVars>>

----------------------------------------------------------------------------
(* The specification of the registry and the marker routes *)

Subscribe == GetEvents
Lose == \E o \in Conns : SocketLost(o)
Close == \E o \in Conns : ReqClose(o)
Create == \E b \in CreateBodies : PostLocations(b[1], b[2], b[3])
Save == \E r \in Reqs, ok \in BOOLEAN : SaveSettles(r, ok)
CreateResume == \E r \in Reqs : PostLocationsResume(r)
Delete == \E b \in DeleteBodies : DeleteLocations(b[1], b[2])
FindDelete == \E r \in Reqs, ok \in BOOLEAN : FindOneAndDeleteSettles(r, ok)
DeleteResume == \E r \in Reqs : DeleteLocationsResume(r)

Next ==
    \/ Subscribe
    \/ Lose
    \/ Close
    \/ Create
    \/ Save
    \/ CreateResume
    \/ Delete
    \/ FindDelete
    \/ DeleteResume

Spec == Init /\ [][Next]_vars

----------------------------------------------------------------------------
(* The server started on a database that already holds a marker *)

\* A document of the locations collection saved by an earlier run
StoredMarker == NewLocation(1, <<1>>, <<5>>, << >>)

InitStored ==
    /\ InitBroker
    /\ store = {StoredMarker}
    /\ nextId = 2
    /\ req = [r \in Reqs |-> NoReq]
    /\ nextReq = 1
    /\ pubs = << >>
    /\ InitSos
    /\ env = AllSet

SpecStored == InitStored /\ [][Next]_vars

----------------------------------------------------------------------------
(* The SOS route: POST /send-sos *)

\* The roster (lines 159-163)
EmergencyContacts == <<"+918360708882", "+917902844175", "+917470651181">>

\* The bodies the SOS route is driven with
SosBodies == {<< <<1>>, <<5>> >>} \cup InvalidBodies

\* The settings of process.env the route reads (lines 156-158)
Envs == [accountSid : BOOLEAN, authToken : BOOLEAN, twilioNumber : BOOLEAN]

\* The message text (line 165)
Message(lat, lon) ==
    <<"EMERGENCY: I need help! My location: https://www.google.com/maps?q=",
      lat[1], ",", lon[1]>>

\* twilio(accountSid, authToken) (line 171): the library raises when the
\* account SID or the auth token is not given.
TwilioRaises(e) == ~e.accountSid \/ ~e.authToken

\* The message of the error the constructor raises: the account SID is
\* tested before the auth token.
TwilioError(e) ==
    IF ~e.accountSid THEN "username is required" ELSE "password is required"

\* The outcome pushed for a contact (lines 178-186): the send resolved
\* with a sid, resolved without one, or raised.
Outcome(contact, how) ==
    IF how = "sid" THEN [contact |-> contact, success |-> TRUE, error |-> << >>]
    ELSE IF how = "nosid"
    THEN [contact |-> contact, success |-> FALSE, error |-> <<"Failed to send">>]
    ELSE [contact |-> contact, success |-> FALSE, error |-> <<how>>]

\* The index the for-of loop goes on with after the outcome of contact i
StopsAtFailure(i, success) ==
    IF success THEN i + 1 ELSE Len(EmergencyContacts) + 1
NextContact(i, success) == i + 1

\* The loop (lines 169-187) from contact i on, run up to its next await:
\* a contact whose client cannot be constructed gets its outcome at once,
\* the first contact whose client is constructed has messages.create
\* called and the handler awaits it.
RECURSIVE RunLoop(_, _, _)
RunLoop(i, results, e) ==
    IF i > Len(EmergencyContacts)
    THEN [i |-> i, results |-> results, awaits |-> FALSE]
    ELSE IF TwilioRaises(e)
    THEN RunLoop(NextContact(i, FALSE),
                 Append(results, Outcome(EmergencyContacts[i], TwilioError(e))),
                 e)
    ELSE [i |-> i, results |-> results, awaits |-> TRUE]

\* results.filter(r => r.success).length (line 189)
Successful(results) ==
    Cardinality({k \in 1..Len(results) : results[k].success})

\* The response (lines 191-205)
PartialFirst(results) ==
    LET successful == Successful(results)
    IN IF successful > 0
       THEN [status |-> 200,
             reply |-> [success |-> TRUE, partial |-> <<TRUE>>,
                        successful |-> <<successful>>,
                        total |-> <<Len(EmergencyContacts)>>,
                        text |-> << >>]]
       ELSE [status |-> 500,
             reply |-> [success |-> FALSE, partial |-> << >>,
                        successful |-> << >>, total |-> << >>,
                        text |-> <<"Failed to send any messages">>]]
Aggregate(results) ==
    LET successful == Successful(results)
    IN IF successful = Len(EmergencyContacts)
       THEN [status |-> 200,
             reply |-> [success |-> TRUE, partial |-> << >>,
                        successful |-> << >>, total |-> << >>,
                        text |-> <<"All messages sent successfully">>]]
       ELSE IF successful > 0
       THEN [status |-> 200,
             reply |-> [success |-> TRUE, partial |-> <<TRUE>>,
                        successful |-> <<successful>>,
                        total |-> <<Len(EmergencyContacts)>>,
                        text |-> << >>]]
       ELSE [status |-> 500,
             reply |-> [success |-> FALSE, partial |-> << >>,
                        successful |-> << >>, total |-> << >>,
                        text |-> <<"Failed to send any messages">>]]

\* The handler of request r goes on from contact i with the given results
\* until it awaits a send or responds.
ProceedSharedResults(r, cur, i, results) ==
    LET st == RunLoop(i, results, env)
        shared == sos[IF r = 1 THEN 2 ELSE 1].results \o st.results
    IN IF st.awaits
       THEN [cur EXCEPT !.pc = "await", !.i = st.i, !.results = st.results,
                        !.sends = cur.sends + 1]
       ELSE [cur EXCEPT !.pc = "done", !.i = st.i, !.results = st.results,
                        !.status = Aggregate(shared).status,
                        !.reply = Aggregate(shared).reply]
ProceedWithoutAwait(r, cur, i, results) ==
    LET st == RunLoop(i, results, env)
    IN [cur EXCEPT !.pc = "done", !.i = st.i, !.results = st.results,
                   !.sends = cur.sends + (IF st.awaits THEN 1 ELSE 0),
                   !.status = Aggregate(st.results).status,
                   !.reply = Aggregate(st.results).reply]
Proceed(r, cur, i, results) ==
    LET st == RunLoop(i, results, env)
    IN IF st.awaits
       THEN [cur EXCEPT !.pc = "await", !.i = st.i, !.results = st.results,
                        !.sends = cur.sends + 1]
       ELSE [cur EXCEPT !.pc = "done", !.i = st.i, !.results = st.results,
                        !.status = Aggregate(st.results).status,
                        !.reply = Aggregate(st.results).reply]

\* POST /send-sos up to its first await or its response (lines 142-176)
SendSos(lat, lon) ==
    /\ nextSos <= MaxSos
    /\ nextSos' = nextSos + 1
    /\ IF Falsy(lat) \/ Falsy(lon)
       THEN sos' = [sos EXCEPT ![nextSos] =
                      [NoSos EXCEPT !.pc = "done", !.latitude = lat,
                         !.longitude = lon, !.status = 400,
                         !.reply = [success |-> FALSE, partial |-> << >>,
                                    successful |-> << >>, total |-> << >>,
                                    text |-> <<"Location data is required">>]]]
       ELSE sos' = [sos EXCEPT ![nextSos] =
                      Proceed(nextSos,
                              [NoSos EXCEPT !.latitude = lat, !.longitude = lon,
                                            !.message = Message(lat, lon)],
                              1, << >>)]
    /\ UNCHANGED <<env, brokerVars, markerVars>>

\* The awaited send of request r settles and the handler goes on
\* (lines 178-205).
SendSettles(r, how) ==
    /\ sos[r].pc = "await"
    /\ LET out == Outcome(EmergencyContacts[sos[r].i], how)
           cur == [sos[r] EXCEPT !.sids = @ + (IF how = "sid" THEN 1 ELSE 0)]
       IN sos' = [sos EXCEPT ![r] =
                    Proceed(r, cur, NextContact(sos[r].i, out.success),
                            Append(sos[r].results, out))]
    /\ UNCHANGED <<env, nextSos, brokerVars, markerVars>>

----------------------------------------------------------------------------
(* The specification of the SOS route, under every setting of process.env *)

SendOutcomes == {"sid", "nosid", "raise"}

Trigger == \E b \in SosBodies : SendSos(b[1], b[2])
Settle == \E r \in SosReqs, how \in SendOutcomes : SendSettles(r, how)

InitEnv ==
    /\ InitBroker
    /\ InitMarkers
    /\ InitSos
    /\ env \in Envs

NextSosRoute ==
    \/ Trigger
    \/ Settle

SpecSos == InitEnv /\ [][NextSosRoute]_vars

----------------------------------------------------------------------------
(* The SOS route when a send may never settle *)

\* The promise of the awaited messages.create of request r (line 172)
\* never settles: the route sets no timeout on it, so the handler stays at
\* its await.
SendNeverSettles(r) ==
    /\ sos[r].pc = "await"
    /\ sos' = [sos EXCEPT ![r].pc = "stalled"]
    /\ UNCHANGED <<env, nextSos, brokerVars, markerVars>>

Stall == \E r \in SosReqs : SendNeverSettles(r)

NextSosStall ==
    \/ Trigger
    \/ Settle
    \/ Stall

\* Node resumes a handler whose awaited promise settled: a send that
\* settles is followed by the continuation of its handler.
SosFairness ==
    \A r \in SosReqs : WF_vars(\E how \in SendOutcomes : SendSettles(r, how))

SpecSosFair == InitEnv /\ [][NextSosStall]_vars /\ SosFairness

----------------------------------------------------------------------------
(* The three routes and the registry in one server process *)

\* The requests of all routes the model lets the server receive
InBudget == (nextReq - 1) + (nextSos - 1) < MaxRequests

CreateInBudget == InBudget /\ Create
DeleteInBudget == InBudget /\ Delete
TriggerInBudget == InBudget /\ Trigger

NextRoutes ==
    \/ Subscribe
    \/ Lose
    \/ Close
    \/ CreateInBudget
    \/ Save
    \/ CreateResume
    \/ DeleteInBudget
    \/ FindDelete
    \/ DeleteResume
    \/ TriggerInBudget
    \/ Settle

SpecRoutes == Init /\ [][NextRoutes]_vars

----------------------------------------------------------------------------
(* Properties of the registry and the marker routes, checked under Spec *)

\* The calls of the closure of connection o made by broadcast call p, and
\* the frames of broadcast call p its stream accepted
Attempts(o, p) == {k \in DOMAIN called[o] : called[o][k].pub = p}
Deliveries(o, p) == {k \in DOMAIN received[o] : received[o][k].pub = p}

\* C1: an observer whose close handler ran before a broadcast call is not
\* called by that broadcast and receives nothing of it.
C1_ClosedObserverGetsNothing ==
    \A p \in DOMAIN pubs : \A o \in pubs[p].closed :
        Attempts(o, p) = {} /\ Deliveries(o, p) = {}

\* An observer received an event, closed, and a later event went to others.
C1_Witness ==
    \E p \in DOMAIN pubs : \E o \in pubs[p].closed :
        /\ received[o] # << >>
        /\ pubs[p].snapshot # << >>

\* C2: a broadcast call with N closures in clients calls each of them
\* exactly once and nothing else, N attempts in all; with N = 0 it calls
\* nothing and the request completes with its success status.
C2_OneAttemptPerObserver ==
    \A p \in DOMAIN pubs :
        LET live == Range(pubs[p].snapshot)
        IN /\ Cardinality(live) = Len(pubs[p].snapshot)
           /\ \A o \in Conns :
                 Cardinality(Attempts(o, p)) = IF o \in live THEN 1 ELSE 0
           /\ pubs[p].snapshot = << >> => req[pubs[p].by].status \in {200, 201}

\* One broadcast found clients empty, another found several closures.
C2_Witness ==
    \E p, q \in DOMAIN pubs :
        /\ pubs[p].snapshot = << >>
        /\ req[pubs[p].by].pc = "done"
        /\ Len(pubs[q].snapshot) >= 2

\* C3: a broadcast call that meets a closure whose socket is lost delivers
\* to every other observer and leaves that closure out of clients.
C3_BrokenObserverDropped ==
    [][Len(pubs') > Len(pubs) =>
         \A o \in Range(clients) :
             conn[o] = "broken" =>
                 /\ o \notin Range(clients')
                 /\ \A q \in Range(clients) :
                       conn[q] = "open" =>
                           \E k \in DOMAIN received'[q] :
                               received'[q][k].pub = Len(pubs')]_vars

\* C6: broadcast is called only by a request whose store call succeeded:
\* a create whose save was rejected, and a delete that found no document or
\* was rejected, call it never; a NEW_MARKER comes from a saved create, a
\* DELETE_MARKER from a delete that removed a document.
C6_PublishOnlyAfterStore ==
    /\ \A r \in Reqs :
          req[r].outcome # "ok" => \A p \in DOMAIN pubs : pubs[p].by # r
    /\ \A p \in DOMAIN pubs :
          LET r == pubs[p].by
          IN /\ req[r].outcome = "ok"
             /\ req[r].doc # << >>
             /\ pubs[p].data.type = "NEW_MARKER" => req[r].kind = "create"
             /\ pubs[p].data.type = "DELETE_MARKER" =>
                   req[r].kind = "delete" /\ req[r].doc[1] \notin store

\* A create whose save was rejected and a delete that found nothing are done.
C6_Witness ==
    \E r, q \in Reqs :
        /\ req[r].kind = "create" /\ req[r].pc = "done" /\ req[r].outcome = "error"
        /\ req[q].kind = "delete" /\ req[q].pc = "done"
        /\ req[q].outcome \in {"null", "error"}

\* C8: every stream holds the frames of the broadcast calls in the order
\* of the calls, and an observer that is in clients with its socket up at
\* two broadcast calls holds the frame of the earlier before the later.
C8_PublishOrder ==
    /\ \A o \in Conns : \A j, k \in DOMAIN received[o] :
          j < k => received[o][j].pub < received[o][k].pub
    /\ \A p, q \in DOMAIN pubs : \A o \in Conns :
          ( /\ p < q
            /\ o \in Range(pubs[p].snapshot) \ pubs[p].broken
            /\ o \in Range(pubs[q].snapshot) \ pubs[q].broken )
          => \E j, k \in DOMAIN received[o] :
                /\ j < k
                /\ received[o][j] = [pub |-> p, frame |-> Frame(pubs[p].data)]
                /\ received[o][k] = [pub |-> q, frame |-> Frame(pubs[q].data)]

\* Two observers each hold the frames of two broadcast calls.
C8_Witness ==
    \E o, q \in Conns :
        /\ o # q
        /\ Len(received[o]) >= 2
        /\ Len(received[q]) >= 2

\* The coordinates of the document a delete request removed, and the
\* coordinates the request asked for
DeletedCoords(r) ==
    [latitude |-> req[r].doc[1].latitude, longitude |-> req[r].doc[1].longitude]
RequestCoords(r) ==
    [latitude |-> req[r].latitude[1], longitude |-> req[r].longitude[1]]

\* The fields of the marker a create request asked for
MarkerOf(r) ==
    [id |-> req[r].doc[1].id, latitude |-> req[r].latitude[1],
     longitude |-> req[r].longitude[1],
     description |-> IF req[r].description = << >> THEN ""
                     ELSE req[r].description[1]]

\* The end-to-end run: marker A is created with three observers
\* subscribed, one of them closes, A is deleted.  Each of the three holds
\* exactly one NEW_MARKER frame with A's fields; the two that stayed hold
\* exactly one DELETE_MARKER frame with the coordinates Coords, the one
\* that closed holds none.
EndToEnd(Coords(_)) ==
    \A p, q \in DOMAIN pubs :
        LET a == pubs[p]
            d == pubs[q]
        IN ( /\ p < q
             /\ a.data.type = "NEW_MARKER"
             /\ d.data.type = "DELETE_MARKER"
             /\ req[d.by].doc = req[a.by].doc
             /\ Len(a.snapshot) = 3
             /\ a.broken = {}
             /\ d.broken = {}
             /\ Cardinality(Range(a.snapshot) \cap d.closed) = 1 )
           => /\ \A o \in Range(a.snapshot) :
                    /\ Cardinality(Deliveries(o, p)) = 1
                    /\ \A k \in Deliveries(o, p) :
                          received[o][k].frame =
                              Frame([type |-> "NEW_MARKER", data |-> MarkerOf(a.by)])
              /\ \A o \in Range(a.snapshot) \ d.closed :
                    /\ Cardinality(Deliveries(o, q)) = 1
                    /\ \A k \in Deliveries(o, q) :
                          received[o][k].frame =
                              Frame([type |-> "DELETE_MARKER", data |-> Coords(d.by)])
              /\ \A o \in d.closed : Deliveries(o, q) = {}

\* C9 as stated: the DELETE_MARKER frame carries A's coordinates.
C9_EndToEndMarkerCoords == EndToEnd(DeletedCoords)

\* C9 amended: the DELETE_MARKER frame carries the coordinates of the
\* delete request, which are within the tolerance of A's.
C9_EndToEndRequestCoords == EndToEnd(RequestCoords)

\* Three observers, create A, observer 2 closes, A is deleted by a request
\* for coordinates at the tolerance from A's.
C9_Witness ==
    /\ Len(pubs) = 2
    /\ pubs[1].data.type = "NEW_MARKER"
    /\ pubs[2].data.type = "DELETE_MARKER"
    /\ pubs[1].snapshot = <<1, 2, 3>>
    /\ pubs[2].snapshot = <<1, 3>>
    /\ pubs[2].closed = {2}
    /\ pubs[1].broken = {} /\ pubs[2].broken = {}
    /\ req[pubs[2].by].doc = req[pubs[1].by].doc
    /\ RequestCoords(pubs[2].by) # DeletedCoords(pubs[2].by)
    /\ Len(received[1]) = 2 /\ Len(received[2]) = 1 /\ Len(received[3]) = 2

\* C10: the status of a finished create or delete is decided by the
\* outcome of its store call alone, also when a closure broadcast called
\* had lost its socket.
C10_StatusFromStore ==
    \A r \in Reqs :
        (req[r].pc = "done" /\ req[r].status # 400) =>
            /\ req[r].kind = "create" =>
                  req[r].status = IF req[r].outcome = "ok" THEN 201 ELSE 500
            /\ req[r].kind = "delete" =>
                  req[r].status = IF req[r].outcome = "ok" THEN 200
                                  ELSE IF req[r].outcome = "null" THEN 404
                                  ELSE 500

\* A create and a delete each broadcast to a closure whose socket was lost
\* and answered with their success status.
C10_Witness ==
    \E p, q \in DOMAIN pubs :
        /\ pubs[p].broken \cap Range(pubs[p].snapshot) # {}
        /\ pubs[q].broken \cap Range(pubs[q].snapshot) # {}
        /\ req[pubs[p].by].kind = "create" /\ req[pubs[p].by].status = 201
        /\ req[pubs[q].by].kind = "delete" /\ req[pubs[q].by].status = 200

\* C12: the close handler run for an observer that is not in clients
\* leaves clients as it is, and the close handler run for one that is in
\* clients removes that observer alone, the others staying in their
\* order; run once more it changes nothing.
C12_UnsubscribeIdempotentLocal ==
    [][/\ \A o \in Conns :
             o \notin Range(clients) => CloseHandler(clients, o) = clients
       /\ \A o \in Conns :
             (conn[o] # "closed" /\ conn'[o] = "closed") =>
                 /\ clients' = SelectSeq(clients, LAMBDA c : c # o)
                 /\ CloseHandler(clients', o) = clients']_vars

\* The second of three observers closed; the first and the third stay.
C12_Witness ==
    /\ conn[2] = "closed"
    /\ clients = <<1, 3>>
    /\ pubs = << >>

\* C13: an observer is called for, and holds frames of, only the
\* broadcast calls that found its closure in clients: a broadcast made
\* before it subscribed, also one that found clients empty, never reaches
\* it afterwards.
C13_NoHistoryReplayed ==
    \A o \in Conns :
        /\ \A k \in DOMAIN called[o] :
              o \in Range(pubs[called[o][k].pub].snapshot)
        /\ \A k \in DOMAIN received[o] :
              o \in Range(pubs[received[o][k].pub].snapshot)
        /\ \A p \in DOMAIN pubs :
              (o \notin Range(pubs[p].snapshot) /\ o \notin pubs[p].closed) =>
                  Attempts(o, p) = {} /\ Deliveries(o, p) = {}

\* An event found clients empty; an observer subscribed afterwards and
\* holds the next event only.
C13_Witness ==
    \E o \in Conns :
        /\ Len(pubs) = 2
        /\ pubs[1].snapshot = << >>
        /\ o \in Range(pubs[2].snapshot)
        /\ Len(received[o]) = 1
        /\ received[o][1].pub = 2

\* A stored coordinate and a requested one differ by at most the tolerance.
Within(v, x) == v - x <= Tolerance /\ x - v <= Tolerance

\* C14: a delete request removes and returns a stored marker exactly when
\* some stored marker has both its latitude and its longitude within the
\* tolerance of the requested ones, the bounds included, and the marker
\* removed is such a one; when there is none the request is answered 404,
\* the store stays as it is and nothing is broadcast.
C14_MatchWithinTolerance ==
    [][\A r \in Reqs :
          /\ ( /\ req[r].kind = "delete"
               /\ req[r].pc = "await"
               /\ req'[r].pc = "settled"
               /\ req'[r].outcome # "error" )
             => LET near == {d \in store :
                                /\ Within(d.latitude, req[r].latitude[1])
                                /\ Within(d.longitude, req[r].longitude[1])}
                IN /\ near # {} => /\ req'[r].outcome = "ok"
                                   /\ req'[r].doc[1] \in near
                                   /\ store' = store \ {req'[r].doc[1]}
                   /\ near = {} => /\ req'[r].outcome = "null"
                                   /\ store' = store
          /\ ( /\ req[r].kind = "delete"
               /\ req[r].pc = "settled"
               /\ req[r].outcome = "null"
               /\ req'[r].pc = "done" )
             => /\ req'[r].status = 404
                /\ pubs' = pubs
                /\ store' = store]_vars

\* C15: a broadcast call is one pass over the clients array it finds:
\* it calls exactly the closures in clients at its start, each once, also
\* one whose close is pending; clients and the connections are the same
\* after it; no other observer is touched; and the request that made the
\* call is answered with its success status.
C15_PassOverSnapshot ==
    [][Len(pubs') > Len(pubs) =>
          LET p == Len(pubs')
          IN /\ p = Len(pubs) + 1
             /\ pubs'[p].snapshot = clients
             /\ clients' = clients
             /\ conn' = conn
             /\ \A o \in Conns :
                   IF o \in Range(clients)
                   THEN /\ Len(called'[o]) = Len(called[o]) + 1
                        /\ SubSeq(called'[o], 1, Len(called[o])) = called[o]
                        /\ called'[o][Len(called'[o])].pub = p
                   ELSE /\ called'[o] = called[o]
                        /\ received'[o] = received[o]
             /\ req'[pubs'[p].by].pc = "done"
             /\ req'[pubs'[p].by].status \in {200, 201}]_vars

\* A broadcast called an observer whose close was pending, and an
\* observer that subscribed after it holds nothing of it.
C15_Witness ==
    \E p \in DOMAIN pubs : \E o, q \in Conns :
        /\ o \in Range(pubs[p].snapshot) \cap pubs[p].broken
        /\ Attempts(o, p) # {}
        /\ q \notin Range(pubs[p].snapshot)
        /\ q \notin pubs[p].closed
        /\ conn[q] = "open"
        /\ Attempts(q, p) = {}

\* C16: clients holds the closure of a connection exactly once from its
\* GET /events until its close event is dispatched, and never before or
\* after: no closure of a closed connection is kept.
C16_OnlyOpenObservers ==
    \A o \in Conns :
        LET places == {k \in DOMAIN clients : clients[k] = o}
        IN /\ conn[o] \in {"open", "broken"} => Cardinality(places) = 1
           /\ conn[o] \in {"none", "closed"} => places = {}

\* One connection is closed, one is open and one has its close pending.
C16_Witness ==
    \E o, q, w \in Conns :
        /\ conn[o] = "closed"
        /\ conn[q] = "open"
        /\ conn[w] = "broken"
        /\ Len(clients) = 2

----------------------------------------------------------------------------
(* Properties of the delete route on a stored marker, checked under        *)
(* SpecStored                                                              *)

\* The broadcast calls that published a DELETE_MARKER event
DeleteEvents == {p \in DOMAIN pubs : pubs[p].data.type = "DELETE_MARKER"}

\* The delete requests whose findOneAndDelete returned a document
Removers == {r \in Reqs : req[r].kind = "delete" /\ req[r].outcome = "ok"}

\* The number of markers that were ever stored: the one stored at the
\* start and one per save that succeeded
MarkersCreated ==
    Cardinality({StoredMarker})
    + Cardinality({r \in Reqs : req[r].kind = "create" /\ req[r].outcome = "ok"})

\* Request r asked to delete at coordinates that match the stored marker
AimsAtStored(r) ==
    /\ req[r].kind = "delete"
    /\ ~Falsy(req[r].latitude) /\ ~Falsy(req[r].longitude)
    /\ Matches(StoredMarker, req[r].latitude[1], req[r].longitude[1])

\* C20: no two delete requests removed the same document and no two
\* DELETE_MARKER events were published for the same document; a delete
\* request that removed a document answers 200 and publishes exactly one
\* event, one that found none answers 404 and publishes none; of the
\* delete requests that aim at the single stored marker exactly one
\* removes it and answers 200, and every other one whose store call went
\* through answers 404 and publishes nothing; and the DELETE_MARKER events
\* are never more than the markers created.
C20_OneDeleteEventPerMarker ==
    /\ \A r, q \in Removers : r # q => req[r].doc # req[q].doc
    /\ \A p, q \in DeleteEvents :
          p # q => req[pubs[p].by].doc # req[pubs[q].by].doc
    /\ \A r \in Reqs :
          (req[r].kind = "delete" /\ req[r].pc = "done") =>
             LET mine == {p \in DeleteEvents : pubs[p].by = r}
             IN /\ req[r].outcome = "ok" =>
                      req[r].status = 200 /\ Cardinality(mine) = 1
                /\ req[r].outcome = "null" =>
                      req[r].status = 404 /\ mine = {}
    /\ \A r \in Reqs :
          (/\ AimsAtStored(r)
           /\ req[r].pc = "done"
           /\ req[r].outcome # "error"
           /\ \A c \in Reqs : req[c].kind # "create") =>
              /\ Cardinality({c \in Removers : AimsAtStored(c)}) = 1
              /\ req[r].status \in {200, 404}
              /\ req[r].status = 404 =>
                    \E q \in Removers : q # r /\ AimsAtStored(q)
              /\ Cardinality(DeleteEvents) <= 1
    /\ Cardinality(DeleteEvents) <= MarkersCreated

\* Two delete requests aimed at the stored marker were in flight together:
\* the one received second removed it and published the event, the one
\* received first found nothing.
C20_Witness ==
    /\ AimsAtStored(1) /\ AimsAtStored(2)
    /\ req[1].pc = "done" /\ req[1].status = 404
    /\ req[2].pc = "done" /\ req[2].status = 200
    /\ Cardinality(DeleteEvents) = 1
    /\ store = {}

----------------------------------------------------------------------------
(* Properties of the SOS route, checked under SpecSos *)

\* A request the route answered after its loop
Answered(r) == sos[r].pc = "done" /\ sos[r].status # 400

\* C4: with T the length of the roster and n the number of sends that
\* resolved with a sid, the response is the full success when n = T, the
\* partial success with successful = n and total = T when 0 < n < T, and
\* the failure when n = 0.
C4_AggregatePolicy ==
    \A r \in SosReqs :
        Answered(r) =>
            LET n == sos[r].sids
                T == Len(EmergencyContacts)
                rep == sos[r].reply
            IN /\ n = T => /\ sos[r].status = 200
                           /\ rep.success
                           /\ rep.partial = << >>
               /\ (0 < n /\ n < T) => /\ sos[r].status = 200
                                      /\ rep.success
                                      /\ rep.partial = <<TRUE>>
                                      /\ rep.successful = <<n>>
                                      /\ rep.total = <<T>>
               /\ n = 0 => /\ sos[r].status = 500
                           /\ ~rep.success

\* One request ended in the full success, another in a partial one.
C4_Witness ==
    \E r, q \in SosReqs :
        /\ Answered(r) /\ sos[r].sids = Len(EmergencyContacts)
        /\ Answered(q) /\ sos[q].sids > 0 /\ sos[q].sids < Len(EmergencyContacts)

\* C5: an answered request holds exactly one outcome per roster entry, in
\* roster order, whatever the outcomes were, and has called the channel
\* once per entry whenever the client could be constructed.
C5_EveryRecipientOnce ==
    \A r \in SosReqs :
        /\ sos[r].sends <= Len(EmergencyContacts)
        /\ Len(sos[r].results) <= Len(EmergencyContacts)
        /\ Answered(r) =>
              /\ Len(sos[r].results) = Len(EmergencyContacts)
              /\ \A k \in 1..Len(EmergencyContacts) :
                    sos[r].results[k].contact = EmergencyContacts[k]
              /\ ~TwilioRaises(env) => sos[r].sends = Len(EmergencyContacts)

\* The send to the first recipient failed and the later ones were made.
C5_Witness ==
    \E r \in SosReqs :
        /\ Answered(r)
        /\ sos[r].sends = 3
        /\ ~sos[r].results[1].success
        /\ sos[r].results[3].success

\* One of the three Twilio settings the route reads is not set.
CredentialsMissing == ~env.accountSid \/ ~env.authToken \/ ~env.twilioNumber

\* C7: with a Twilio setting missing no request calls the channel for any
\* recipient, and a request the route answered was answered with the
\* failure.
C7_NoAttemptWithoutCredentials ==
    CredentialsMissing =>
        \A r \in SosReqs :
            /\ sos[r].sends = 0
            /\ Answered(r) => sos[r].status = 500


\* C17: the step that sends the response of a request that passed the
\* validation leaves one outcome per roster entry, in roster order, and no
\* send of the request awaited, and the response is the aggregate of those
\* outcomes; a request that awaits a send has sent no response.
C17_AggregateAfterAllOutcomes ==
    [][\A r \in SosReqs :
          /\ (sos[r].status = 0 /\ sos'[r].status \notin {0, 400}) =>
                /\ sos'[r].pc = "done"
                /\ Len(sos'[r].results) = Len(EmergencyContacts)
                /\ \A k \in 1..Len(EmergencyContacts) :
                      sos'[r].results[k].contact = EmergencyContacts[k]
                /\ sos'[r].status = Aggregate(sos'[r].results).status
                /\ sos'[r].reply = Aggregate(sos'[r].results).reply
          /\ sos'[r].pc = "await" =>
                /\ sos'[r].status = 0
                /\ sos'[r].reply = NoReply
                /\ Len(sos'[r].results) < Len(EmergencyContacts)]_vars

\* One request was answered after its three sends settled while another
\* still awaits its third send and has no response.
C17_Witness ==
    \E r, q \in SosReqs :
        /\ Answered(r) /\ sos[r].sends = Len(EmergencyContacts)
        /\ sos[q].pc = "await"
        /\ Len(sos[q].results) = 2
        /\ sos[q].status = 0

\* The success count the response of request r states
ResponseCount(r) ==
    IF sos[r].reply.partial = <<TRUE>> THEN sos[r].reply.successful[1]
    ELSE IF sos[r].status = 200 THEN Len(EmergencyContacts)
    ELSE 0

\* C19: whatever the other requests are doing, a request has called the
\* channel as many times as it holds outcomes, plus one while it awaits a
\* send, whenever the client could be constructed; and the success count
\* in its response is the number of its own sends that resolved with a
\* sid, which is the number of successes among its own outcomes.
C19_RequestsShareNothing ==
    \A r \in SosReqs :
        /\ ~TwilioRaises(env) =>
              sos[r].sends = Len(sos[r].results)
                             + (IF sos[r].pc = "await" THEN 1 ELSE 0)
        /\ Successful(sos[r].results) = sos[r].sids
        /\ Answered(r) =>
              /\ ~TwilioRaises(env) => sos[r].sends = Len(EmergencyContacts)
              /\ ResponseCount(r) = sos[r].sids

\* The second request was received while the first was in flight and was
\* answered, with one success, while the first, with two successes so
\* far, still awaits its third send.
C19_Witness ==
    /\ Answered(2)
    /\ sos[2].sids = 1
    /\ sos[2].reply.successful = <<1>>
    /\ sos[1].pc = "await"
    /\ sos[1].sids = 2
    /\ sos[1].sends = 3

\* C11: every request that awaits a send is answered in the end, also
\* when that send never settles.
C11_EveryTriggerAnswered ==
    \A r \in SosReqs :
        (sos[r].pc \in {"await", "stalled"}) ~> (sos[r].pc = "done")

----------------------------------------------------------------------------
(* Properties of the three routes together, checked under SpecRoutes *)

\* What a rejected request must leave alone: the store, the registry,
\* what was published and written, and the channel calls of every SOS
\* request.
NoEffect ==
    /\ store' = store
    /\ clients' = clients
    /\ conn' = conn
    /\ pubs' = pubs
    /\ called' = called
    /\ received' = received
    /\ \A q \in SosReqs : sos'[q].sends = sos[q].sends

\* A coordinate of a request body that is absent or the number 0
MissingOrZero(f) == f \in {<< >>, <<0>>}

\* C18: the step that receives a create, delete or SOS request whose
\* latitude or longitude is absent or 0 answers it with 400 and changes
\* neither the store, nor clients, nor what was published or written, nor
\* the count of channel calls; a request answered with 400 never takes a
\* later step.
C18_InvalidRejectedNoEffect ==
    [][/\ \A r \in Reqs :
             /\ (req[r].kind = "none" /\ req'[r].kind # "none"
                 /\ (MissingOrZero(req'[r].latitude)
                     \/ MissingOrZero(req'[r].longitude))) =>
                   /\ req'[r].status = 400
                   /\ req'[r].pc = "done"
                   /\ req'[r].doc = << >>
                   /\ NoEffect
             /\ req[r].status = 400 => req'[r] = req[r]
       /\ \A r \in SosReqs :
             /\ (sos[r].pc = "idle" /\ sos'[r].pc # "idle"
                 /\ (MissingOrZero(sos'[r].latitude)
                     \/ MissingOrZero(sos'[r].longitude))) =>
                   /\ sos'[r].status = 400
                   /\ sos'[r].pc = "done"
                   /\ sos'[r].results = << >>
                   /\ req' = req
                   /\ NoEffect
             /\ sos[r].status = 400 => sos'[r] = sos[r]]_vars

\* A marker request with latitude 0 and an SOS request without longitude
\* were both rejected while an observer is subscribed.
C18_Witness ==
    \E r \in Reqs, q \in SosReqs, o \in Conns :
        /\ req[r].status = 400 /\ req[r].latitude = <<0>>
        /\ sos[q].status = 400 /\ sos[q].longitude = << >>
        /\ conn[o] = "open"
        /\ sos[q].sends = 0
        /\ pubs = << >>

====
